---- MODULE Spec2Model ----
(***************************************************************************)
(* Model of the contact manager of src/base.py: the contact list, the      *)
(* folder registry and tree, the contacts table, the drag gesture and the  *)
(* CSV file.  Strings are sequences of one-character strings, so that      *)
(* strip, split and startswith are computed as Python computes them.       *)
(* Positions are Python list indices (0-based; a negative index counts     *)
(* from the end).                                                          *)
(***************************************************************************)
EXTENDS Integers, Sequences, FiniteSets, TLC

\* ------------------------------------------------------------------ bounds
MaxContacts == 3
MaxFolders == 2
MaxPathLen == 3

\* ------------------------------------------------------------- constants
DRAG_THRESHOLD == 5

ROOT_ID == <<"__root__">>

Whitespace == {" "}

\* Code points of the characters used, for Python's string ordering.
Code == [c \in {" ", "-", "/", "2", "A", "B", "x"} |->
            CASE c = " " -> 32 [] c = "-" -> 45 [] c = "/" -> 47 [] c = "2" -> 50
              [] c = "A" -> 65 [] c = "B" -> 66 [] c = "x" -> 120]

\* ---------------------------------------------------------- Python strings
RECURSIVE lstrip(_, _)
lstrip(s, chars) ==
    IF s # <<>> /\ Head(s) \in chars THEN lstrip(Tail(s), chars) ELSE s

RECURSIVE rstrip(_, _)
rstrip(s, chars) ==
    IF s # <<>> /\ s[Len(s)] \in chars THEN rstrip(SubSeq(s, 1, Len(s) - 1), chars) ELSE s

\* str.strip(chars)
strip(s, chars) == rstrip(lstrip(s, chars), chars)

\* _norm_path
norm_path(p) == strip(p, Whitespace)

\* str.startswith
startswith(s, prefix) ==
    Len(prefix) <= Len(s) /\ SubSeq(s, 1, Len(prefix)) = prefix

\* "/" in s
contains(s, ch) == \E k \in 1..Len(s) : s[k] = ch

\* str.split("/")
RECURSIVE split(_, _)
split(s, sep) ==
    IF ~contains(s, sep) THEN <<s>>
    ELSE LET k == CHOOSE k \in 1..Len(s) : s[k] = sep /\ \A m \in 1..(k - 1) : s[m] # sep
         IN  <<SubSeq(s, 1, k - 1)>> \o split(SubSeq(s, k + 1, Len(s)), sep)

\* s < t in Python's order of strings
RECURSIVE str_less(_, _)
str_less(s, t) ==
    IF t = <<>> THEN FALSE
    ELSE IF s = <<>> THEN TRUE
    ELSE IF Code[Head(s)] # Code[Head(t)] THEN Code[Head(s)] < Code[Head(t)]
    ELSE str_less(Tail(s), Tail(t))

\* sorted(paths)
RECURSIVE sorted(_)
sorted(S) ==
    IF S = {} THEN <<>>
    ELSE LET m == CHOOSE m \in S : \A x \in S \ {m} : str_less(m, x)
         IN  <<m>> \o sorted(S \ {m})

\* ------------------------------------------------------------ Python lists
\* A list is a sequence; position i of the list is element i + 1 of the sequence.
valid_index(l, i) == -Len(l) <= i /\ i < Len(l)

norm_index(l, i) == IF i < 0 THEN i + Len(l) ELSE i

\* l[i]
item(l, i) == l[norm_index(l, i) + 1]

\* del l[i] / l.pop(i), for a valid i
list_del(l, i) ==
    LET k == norm_index(l, i) + 1
    IN  SubSeq(l, 1, k - 1) \o SubSeq(l, k + 1, Len(l))

\* l.insert(pos, x): pos is clamped to the list
list_insert(l, pos, x) ==
    LET p == IF pos < 0 THEN (IF pos + Len(l) < 0 THEN 0 ELSE pos + Len(l))
             ELSE IF pos > Len(l) THEN Len(l) ELSE pos
    IN  SubSeq(l, 1, p) \o <<x>> \o SubSeq(l, p + 1, Len(l))

\* l[i] = x, for a valid i
list_set(l, i, x) == [l EXCEPT ![norm_index(l, i) + 1] = x]

\* ------------------------------------------------------------------ state
VARIABLES
    contacts,           \* self.contacts
    folder_path_to_id,  \* self.folder_path_to_id
    folder_tree,        \* the items of self.folder_tree: item id -> its children, in order
    selection,          \* self.folder_tree.selection(), at most its first item
    current_folder,     \* self.current_folder
    contacts_table,     \* the row ids of self.contacts_table
    drag_data,          \* self.drag_data
    file,               \* the data rows of contacts.csv
    created,            \* the folders made by add_folder and not deleted since
    last                \* the handler that ran last and got past its dialogs: its
                        \* arguments and its outcome

vars == <<contacts, folder_path_to_id, folder_tree, selection, current_folder,
          contacts_table, drag_data, file, created, last>>

\* An optional value is None or Some(x)
None == <<>>

Some(x) == <<x>>

Contact(folder_path, name, ammyadmin_id, anydesk_id, rustdesk_id, notes) ==
    [folder_path |-> folder_path, name |-> name, ammyadmin_id |-> ammyadmin_id,
     anydesk_id |-> anydesk_id, rustdesk_id |-> rustdesk_id, notes |-> notes]

Positions(l) == 0..(Len(l) - 1)

\* ------------------------------------------------------------- CSV file
csv_row(c) ==
    <<c.folder_path, c.name, c.ammyadmin_id, c.anydesk_id, c.rustdesk_id, c.notes>>

\* save_contacts: one row per contact, in order
save_contacts(cs) == [k \in 1..Len(cs) |-> csv_row(cs[k])]

\* Mutant of load_contacts: the notes column is not read.
load_contacts_without_notes(rows) ==
    [k \in 1..Len(rows) |->
        Contact(norm_path(rows[k][1]), rows[k][2], rows[k][3], rows[k][4],
                rows[k][5], <<>>)]

\* load_contacts: the folder field is normalised, the others are taken as read
load_contacts(rows) ==
    [k \in 1..Len(rows) |->
        Contact(norm_path(rows[k][1]), rows[k][2], rows[k][3], rows[k][4],
                rows[k][5], rows[k][6])]

\* ------------------------------------------------------------ folder tree
\* Treeview.insert(parent, "end", iid)
tree_insert(tree, parent, iid) ==
    [n \in DOMAIN tree \cup {iid} |->
        IF n = parent THEN Append(tree[parent], iid)
        ELSE IF n = iid THEN <<>> ELSE tree[n]]

Range(f) == {f[x] : x \in DOMAIN f}

RECURSIVE Descendants(_, _)
Descendants(tree, n) ==
    {n} \cup UNION {Descendants(tree, c) : c \in Range(tree[n])}

\* s without the elements of the set R
RECURSIVE seq_without(_, _)
seq_without(s, R) ==
    IF s = <<>> THEN <<>>
    ELSE IF Head(s) \in R THEN seq_without(Tail(s), R)
    ELSE <<Head(s)>> \o seq_without(Tail(s), R)

\* Treeview.delete(item): the item and its descendants go
tree_delete(tree, n) ==
    LET gone == Descendants(tree, n)
    IN  [m \in DOMAIN tree \ gone |-> seq_without(tree[m], gone)]

\* The inner loop of build_folder_tree: one path's parts
RECURSIVE walk_parts(_, _, _, _)
walk_parts(st, parts, cur, parent_id) ==
    IF parts = <<>> THEN st
    ELSE LET part == Head(parts)
             cur2 == IF cur # <<>> THEN cur \o <<"/">> \o part ELSE part
         IN  IF cur2 \notin DOMAIN st.ids
             THEN walk_parts([ids  |-> st.ids @@ (cur2 :> cur2),
                              tree |-> tree_insert(st.tree, parent_id, cur2)],
                             Tail(parts), cur2, cur2)
             ELSE walk_parts(st, Tail(parts), cur2, st.ids[cur2])

\* The outer loop of build_folder_tree, over sorted(paths)
RECURSIVE walk_paths(_, _)
walk_paths(st, paths) ==
    IF paths = <<>> THEN st
    ELSE IF Head(paths) = <<>> THEN walk_paths(st, Tail(paths))
    ELSE walk_paths(walk_parts(st, split(strip(Head(paths), {"/"}), "/"), <<>>, ROOT_ID),
                    Tail(paths))

\* Mutant of build_folder_tree: the paths are walked in the order of the contacts,
\* without sorted().
build_folder_tree_in_store_order(cs) ==
    walk_paths([ids |-> (<<>> :> ROOT_ID), tree |-> (ROOT_ID :> <<>>)],
               [k \in 1..Len(cs) |-> cs[k].folder_path])

\* build_folder_tree: the registry and the tree are made anew from the contacts
build_folder_tree(cs) ==
    LET paths == {cs[k].folder_path : k \in 1..Len(cs)} \cup {<<>>}
    IN  walk_paths([ids |-> (<<>> :> ROOT_ID), tree |-> (ROOT_ID :> <<>>)], sorted(paths))

\* refresh_contacts_table: the rows are the positions of the current folder's contacts
refresh_contacts_table(cs, folder) ==
    {i \in Positions(cs) : norm_path(item(cs, i).folder_path) = norm_path(folder)}

\* on_folder_select: the current folder of a selection
folder_of_selection(sel) ==
    IF sel = <<>> THEN <<>> ELSE IF sel[1] = ROOT_ID THEN <<>> ELSE sel[1]

\* --------------------------------------------------- reparent and reorder
\* What a method leaves behind: the list as it stands, and the exception it raised ("" if none).
Outcome(cs, raised) == [contacts |-> cs, raised |-> raised]

Max(S) == CHOOSE m \in S : \A x \in S : x <= m

\* The positions of l, ascending, whose contact is in `folder`
RECURSIVE indices_from(_, _, _)
indices_from(l, folder, i) ==
    IF i >= Len(l) THEN <<>>
    ELSE IF item(l, i).folder_path = folder THEN <<i>> \o indices_from(l, folder, i + 1)
    ELSE indices_from(l, folder, i + 1)

\* list.index(x): the first position of x, for an x that is in the list
list_index(l, x) == (CHOOSE k \in 1..Len(l) : l[k] = x /\ \A m \in 1..(k - 1) : l[m] # x) - 1

\* Mutant of _move_contact_to_end_of_folder: the contact always goes to the end of
\* the whole list.
move_contact_to_global_end(cs, source_idx) ==
    IF ~valid_index(cs, source_idx) THEN Outcome(cs, "IndexError")
    ELSE Outcome(Append(list_del(cs, source_idx), item(cs, source_idx)), "")

\* _move_contact_to_end_of_folder
move_contact_to_end_of_folder(cs, source_idx) ==
    IF ~valid_index(cs, source_idx) THEN Outcome(cs, "IndexError")
    ELSE LET contact == item(cs, source_idx)
             rest == list_del(cs, source_idx)
             same == {i \in Positions(rest) : item(rest, i).folder_path = contact.folder_path}
         IN  IF same = {} THEN Outcome(Append(rest, contact), "")
             ELSE Outcome(list_insert(rest, Max(same) + 1, contact), "")

\* Mutant of _reorder_within_folder: the source is popped from and inserted into the
\* whole list instead of the folder's own slots.
reorder_in_global_list(cs, source_idx, target_idx) ==
    IF ~valid_index(cs, source_idx) THEN Outcome(cs, "IndexError")
    ELSE IF item(cs, source_idx).folder_path
                \notin {item(cs, i).folder_path : i \in {target_idx} \cap Positions(cs)}
    THEN Outcome(cs, "ValueError")
    ELSE Outcome(list_insert(list_del(cs, source_idx), target_idx, item(cs, source_idx)), "")

\* Mutant of _reorder_within_folder: the target's local position is lowered by one
\* when the source precedes it, as if the pop had shifted it.
reorder_with_shifted_target(cs, source_idx, target_idx) ==
    IF ~valid_index(cs, source_idx) THEN Outcome(cs, "IndexError")
    ELSE LET folder == item(cs, source_idx).folder_path
             folder_indices == indices_from(cs, folder, 0)
         IN  IF source_idx \notin Range(folder_indices) \/ target_idx \notin Range(folder_indices)
             THEN Outcome(cs, "ValueError")
             ELSE LET src_pos == list_index(folder_indices, source_idx)
                      tgt == list_index(folder_indices, target_idx)
                      tgt_pos == IF src_pos < tgt THEN tgt - 1 ELSE tgt
                      folder_contacts == [k \in 1..Len(folder_indices) |->
                                             item(cs, folder_indices[k])]
                      moved == list_insert(list_del(folder_contacts, src_pos), tgt_pos,
                                           item(folder_contacts, src_pos))
                  IN  Outcome([k \in 1..Len(cs) |->
                                  IF (k - 1) \in Range(folder_indices)
                                  THEN item(moved, list_index(folder_indices, k - 1))
                                  ELSE cs[k]], "")

\* Mutant of _reorder_within_folder: the source is written over the target.
reorder_overwriting_target(cs, source_idx, target_idx) ==
    IF ~valid_index(cs, source_idx) THEN Outcome(cs, "IndexError")
    ELSE IF ~valid_index(cs, target_idx)
            \/ item(cs, target_idx).folder_path # item(cs, source_idx).folder_path
    THEN Outcome(cs, "ValueError")
    ELSE Outcome(list_set(cs, target_idx, item(cs, source_idx)), "")

\* _reorder_within_folder
reorder_within_folder(cs, source_idx, target_idx) ==
    IF ~valid_index(cs, source_idx) THEN Outcome(cs, "IndexError")
    ELSE LET folder == item(cs, source_idx).folder_path
             folder_indices == indices_from(cs, folder, 0)
         IN  IF source_idx \notin Range(folder_indices) \/ target_idx \notin Range(folder_indices)
             THEN Outcome(cs, "ValueError")
             ELSE LET src_pos == list_index(folder_indices, source_idx)
                      tgt_pos == list_index(folder_indices, target_idx)
                      folder_contacts == [k \in 1..Len(folder_indices) |->
                                             item(cs, folder_indices[k])]
                      moved == list_insert(list_del(folder_contacts, src_pos), tgt_pos,
                                           item(folder_contacts, src_pos))
                  IN  Outcome([k \in 1..Len(cs) |->
                                  IF (k - 1) \in Range(folder_indices)
                                  THEN item(moved, list_index(folder_indices, k - 1))
                                  ELSE cs[k]], "")

\* Mutant of _move_contact_to_folder_at_position: no adjustment for the removed element.
move_without_adjustment(cs, source_idx, target_folder, target_idx) ==
    IF ~valid_index(cs, source_idx) THEN Outcome(cs, "IndexError")
    ELSE LET contact == [item(cs, source_idx) EXCEPT !.folder_path = target_folder]
             rest == list_del(cs, source_idx)
         IN  Outcome(list_insert(rest, target_idx + 1, contact), "")

\* Mutant of _move_contact_to_folder_at_position: the source and the target change
\* places.
move_by_swap_with_target(cs, source_idx, target_folder, target_idx) ==
    IF ~valid_index(cs, source_idx) THEN Outcome(cs, "IndexError")
    ELSE IF ~valid_index(cs, target_idx) THEN Outcome(cs, "IndexError")
    ELSE LET contact == [item(cs, source_idx) EXCEPT !.folder_path = target_folder]
         IN  Outcome(list_set(list_set(cs, source_idx, item(cs, target_idx)),
                              target_idx, contact), "")

\* _move_contact_to_folder_at_position
move_contact_to_folder_at_position(cs, source_idx, target_folder, target_idx) ==
    IF ~valid_index(cs, source_idx) THEN Outcome(cs, "IndexError")
    ELSE LET contact == [item(cs, source_idx) EXCEPT !.folder_path = target_folder]
             rest == list_del(cs, source_idx)
             insert_pos == IF source_idx < target_idx THEN target_idx - 1 ELSE target_idx
         IN  Outcome(list_insert(rest, insert_pos + 1, contact), "")

\* sorted(indices, reverse=True)
RECURSIVE sorted_reverse(_)
sorted_reverse(S) ==
    IF S = {} THEN <<>> ELSE <<Max(S)>> \o sorted_reverse(S \ {Max(S)})

\* for i in indices: del self.contacts[i]
RECURSIVE del_each(_, _)
del_each(cs, indices) ==
    IF indices = <<>> THEN Outcome(cs, "")
    ELSE IF ~valid_index(cs, Head(indices)) THEN Outcome(cs, "IndexError")
    ELSE del_each(list_del(cs, Head(indices)), Tail(indices))

\* sorted(indices), lowest first
RECURSIVE sorted_ascending(_)
sorted_ascending(S) ==
    IF S = {} THEN <<>>
    ELSE LET m == CHOOSE m \in S : \A x \in S : m <= x
         IN  <<m>> \o sorted_ascending(S \ {m})

\* Mutant of delete_selected: the selected positions are deleted lowest first.
delete_contacts_ascending(cs, sel_contacts) == del_each(cs, sorted_ascending(sel_contacts))

\* delete_selected, lines 386-388: the selected positions, highest first
delete_contacts(cs, sel_contacts) == del_each(cs, sorted_reverse(sel_contacts))

\* delete_selected, lines 410-412: the contacts that stay when a folder goes
without_folder(cs, folder_path) ==
    SelectSeq(cs, LAMBDA c : ~startswith(c.folder_path, folder_path))

\* Mutant of delete_selected: the registry is filtered by the raw prefix, as the
\* contacts are.
registry_without_raw_prefix(ids, folder_path) ==
    LET to_remove == {fp \in DOMAIN ids : startswith(fp, folder_path)}
    IN  [fp \in DOMAIN ids \ to_remove |-> ids[fp]]

\* delete_selected, lines 415-421: the registry keys that stay when a folder goes
registry_without(ids, folder_path) ==
    LET to_remove == {fp \in DOMAIN ids :
                         fp = folder_path \/ startswith(fp, folder_path \o <<"/">>)}
    IN  [fp \in DOMAIN ids \ to_remove |-> ids[fp]]

\* Mutant of add_folder: the name is looked up in the registry as typed, not stripped.
add_folder_unstripped_lookup(ids, tree, sel, name) ==
    LET parent_path == folder_of_selection(sel)
        stripped == strip(name, Whitespace)
        new_path == IF parent_path # <<>> THEN parent_path \o <<"/">> \o stripped ELSE stripped
        typed_path == IF parent_path # <<>> THEN parent_path \o <<"/">> \o name ELSE name
        parent_id == IF parent_path \in DOMAIN ids THEN ids[parent_path] ELSE ROOT_ID
    IN  IF name = <<>>
        THEN [outcome |-> "cancelled", ids |-> ids, tree |-> tree, new_path |-> <<>>]
        ELSE IF contains(stripped, "/")
        THEN [outcome |-> "InvalidName", ids |-> ids, tree |-> tree, new_path |-> <<>>]
        ELSE IF typed_path \in DOMAIN ids
        THEN [outcome |-> "DuplicateFolder", ids |-> ids, tree |-> tree, new_path |-> new_path]
        ELSE [outcome |-> "ok", ids |-> ids @@ (new_path :> new_path),
              tree |-> tree_insert(tree, parent_id, new_path), new_path |-> new_path]

\* add_folder, as a function of the registry, the tree, the selection and the name typed
add_folder(ids, tree, sel, name) ==
    LET parent_path == folder_of_selection(sel)
        stripped == strip(name, Whitespace)
        new_path == IF parent_path # <<>> THEN parent_path \o <<"/">> \o stripped ELSE stripped
        parent_id == IF parent_path \in DOMAIN ids THEN ids[parent_path] ELSE ROOT_ID
    IN  IF name = <<>>
        THEN [outcome |-> "cancelled", ids |-> ids, tree |-> tree, new_path |-> <<>>]
        ELSE IF contains(stripped, "/")
        THEN [outcome |-> "InvalidName", ids |-> ids, tree |-> tree, new_path |-> <<>>]
        ELSE IF new_path \in DOMAIN ids
        THEN [outcome |-> "DuplicateFolder", ids |-> ids, tree |-> tree, new_path |-> new_path]
        ELSE [outcome |-> "ok", ids |-> ids @@ (new_path :> new_path),
              tree |-> tree_insert(tree, parent_id, new_path), new_path |-> new_path]

\* ------------------------------------------------------------------ inputs
Bob == <<"B", "o", "b">>
Al == <<"A", "l">>

\* What the user may type into askstring of add_folder: nothing, a blank, "A", " A2"
\* and "A/A"
FolderNameInputs ==
    { <<>>, <<" ">>, <<"A">>, <<" ", "A", "2">>, <<"A", "/", "A">> }

\* What the user may type into ContactDialog (name, AmmyAdmin, AnyDesk, RustDesk, notes):
\* Bob, a padded Al, and a blank name
DialogInputs ==
    { <<Bob, <<"1">>, <<>>, <<>>, <<>>>>,
      <<<<" ", "A", "l">>, <<>>, <<"2", " ">>, <<>>, <<"n">>>>,
      <<<<" ">>, <<"1">>, <<>>, <<>>, <<>>>> }

\* Pointer movements since the press, as (dx, dy): one short of DRAG_THRESHOLD, one at it
MotionInputs == { <<3, 3>>, <<3, 4>> }

\* ------------------------------------------------------------------- Init
\* __init__ on a machine without contacts.csv: load_contacts writes the header and
\* returns, build_folder_tree makes the root, select_root selects it.
Init ==
    /\ contacts = <<>>
    /\ file = <<>>
    /\ folder_path_to_id = build_folder_tree(<<>>).ids
    /\ folder_tree = build_folder_tree(<<>>).tree
    /\ selection = <<ROOT_ID>>
    /\ current_folder = <<>>
    /\ contacts_table = {}
    /\ drag_data = None
    /\ created = {}
    /\ last = [op |-> "init"]

\* The application is closed and started again: __init__ with the file it left.
Restart ==
    /\ drag_data = None
    /\ LET cs == load_contacts(file)
           built == build_folder_tree(cs)
       IN  /\ contacts' = cs
           /\ folder_path_to_id' = built.ids
           /\ folder_tree' = built.tree
           /\ selection' = <<ROOT_ID>>
           /\ current_folder' = folder_of_selection(<<ROOT_ID>>)
           /\ contacts_table' = refresh_contacts_table(cs, folder_of_selection(<<ROOT_ID>>))
    /\ last' = [op |-> "restart"]
    /\ UNCHANGED <<drag_data, file, created>>

\* --------------------------------------------------------------- handlers
\* A click on a folder item (or a click that clears the selection): on_folder_select
OnFolderSelect(sel) ==
    /\ drag_data = None
    /\ selection' = sel
    /\ current_folder' = folder_of_selection(sel)
    /\ contacts_table' = refresh_contacts_table(contacts, folder_of_selection(sel))
    /\ last' = [op |-> "on_folder_select"]
    /\ UNCHANGED <<contacts, folder_path_to_id, folder_tree, drag_data, file, created>>

\* The "Add Folder" button
AddFolder(name) ==
    /\ drag_data = None
    /\ LET r == add_folder(folder_path_to_id, folder_tree, selection, name)
       IN  /\ r.outcome = "ok" =>
                 /\ Len(r.new_path) <= MaxPathLen
                 /\ Cardinality(DOMAIN folder_path_to_id) <= MaxFolders
                 /\ Cardinality(created \cup {r.new_path}) <= MaxFolders
           /\ folder_path_to_id' = r.ids
           /\ folder_tree' = r.tree
           /\ created' = IF r.outcome = "ok" THEN created \cup {r.new_path} ELSE created
           /\ last' = [op |-> "add_folder", outcome |-> r.outcome, name |-> name]
    /\ UNCHANGED <<contacts, selection, current_folder, contacts_table, drag_data, file>>

\* ContactDialog.apply: the fields are stripped, and a name is required
dialog_apply(input) ==
    LET name == strip(input[1], Whitespace)
    IN  [ok |-> name # <<>>, name |-> name,
         ammy |-> strip(input[2], Whitespace), anydesk |-> strip(input[3], Whitespace),
         rustdesk |-> strip(input[4], Whitespace), notes |-> strip(input[5], Whitespace)]

\* Mutant of _add_contact_callback: the contact is put in front of the list.
add_contact_callback_in_front(cs, folder, d) ==
    <<Contact(folder, d.name, d.ammy, d.anydesk, d.rustdesk, d.notes)>> \o cs

\* _add_contact_callback: the list after the append
add_contact_callback(cs, folder, d) ==
    Append(cs, Contact(folder, d.name, d.ammy, d.anydesk, d.rustdesk, d.notes))

\* The "Add Contact" button and its dialog
AddContact(input) ==
    /\ drag_data = None
    /\ Len(contacts) < MaxContacts
    /\ LET d == dialog_apply(input)
       IN  IF d.ok
           THEN LET cs == add_contact_callback(contacts, current_folder, d)
                IN  /\ contacts' = cs
                    /\ file' = save_contacts(cs)
                    /\ contacts_table' = refresh_contacts_table(cs, current_folder)
                    /\ last' = [op |-> "add_contact", outcome |-> "ok"]
           ELSE UNCHANGED <<contacts, file, contacts_table, last>>
    /\ UNCHANGED <<folder_path_to_id, folder_tree, selection, current_folder, drag_data,
                   created>>

\* Mutant of on_save of edit_selected: the edited contact is taken out and appended.
edit_on_save_reappended(cs, idx, d) ==
    Append(list_del(cs, idx),
           [item(cs, idx) EXCEPT !.name = d.name, !.ammyadmin_id = d.ammy,
               !.anydesk_id = d.anydesk, !.rustdesk_id = d.rustdesk, !.notes = d.notes])

\* on_save of edit_selected: the five fields of the contact at idx are overwritten
edit_on_save(cs, idx, d) ==
    list_set(cs, idx, [item(cs, idx) EXCEPT !.name = d.name, !.ammyadmin_id = d.ammy,
                          !.anydesk_id = d.anydesk, !.rustdesk_id = d.rustdesk,
                          !.notes = d.notes])

\* The "Edit" button, with row idx the first selected row, and its dialog
EditSelected(idx, input) ==
    /\ drag_data = None
    /\ idx \in contacts_table
    /\ IF ~valid_index(contacts, idx)
       THEN /\ UNCHANGED <<contacts, file, contacts_table>>
            /\ last' = [op |-> "edit_selected", outcome |-> "IndexError", i |-> idx]
       ELSE LET d == dialog_apply(input)
            IN  IF d.ok
                THEN LET cs == edit_on_save(contacts, idx, d)
                     IN  /\ contacts' = cs
                         /\ file' = save_contacts(cs)
                         /\ contacts_table' = refresh_contacts_table(cs, current_folder)
                         /\ last' = [op |-> "edit_selected", outcome |-> "ok", i |-> idx]
                ELSE UNCHANGED <<contacts, file, contacts_table, last>>
    /\ UNCHANGED <<folder_path_to_id, folder_tree, selection, current_folder, drag_data,
                   created>>

\* The "Delete" button with rows selected in the table (lines 380-391)
DeleteContacts(sel_contacts, yes) ==
    /\ drag_data = None
    /\ sel_contacts # {}
    /\ sel_contacts \subseteq contacts_table
    /\ IF ~yes
       THEN UNCHANGED <<contacts, file, contacts_table, last>>
       ELSE LET r == delete_contacts(contacts, sel_contacts)
            IN  /\ contacts' = r.contacts
                /\ IF r.raised = ""
                   THEN /\ file' = save_contacts(r.contacts)
                        /\ contacts_table' = refresh_contacts_table(r.contacts, current_folder)
                        /\ last' = [op |-> "delete_contacts", outcome |-> "ok",
                                    s |-> sel_contacts]
                   ELSE /\ UNCHANGED <<file, contacts_table>>
                        /\ last' = [op |-> "delete_contacts", outcome |-> r.raised,
                                    s |-> sel_contacts]
    /\ UNCHANGED <<folder_path_to_id, folder_tree, selection, current_folder, drag_data,
                   created>>

\* The "Delete" button with no row selected in the table (lines 393-424)
DeleteFolder(yes) ==
    /\ drag_data = None
    /\ IF selection = <<>>
       THEN UNCHANGED <<contacts, folder_path_to_id, folder_tree, selection,
                       current_folder, contacts_table, file, created, last>>
       ELSE IF selection[1] = ROOT_ID
       THEN /\ last' = [op |-> "delete_folder", outcome |-> "RootDeletionForbidden"]
            /\ UNCHANGED <<contacts, folder_path_to_id, folder_tree, selection,
                           current_folder, contacts_table, file, created>>
       ELSE IF ~yes
       THEN UNCHANGED <<contacts, folder_path_to_id, folder_tree, selection,
                       current_folder, contacts_table, file, created, last>>
       ELSE LET folder_path == selection[1]
                cs == without_folder(contacts, folder_path)
            IN  /\ contacts' = cs
                /\ folder_tree' = tree_delete(folder_tree, folder_path)
                /\ folder_path_to_id' = registry_without(folder_path_to_id, folder_path)
                /\ file' = save_contacts(cs)
                /\ selection' = <<ROOT_ID>>
                /\ current_folder' = folder_of_selection(<<ROOT_ID>>)
                /\ contacts_table' = refresh_contacts_table(cs, folder_of_selection(<<ROOT_ID>>))
                /\ created' = {fp \in created :
                                 ~(fp = folder_path \/ startswith(fp, folder_path \o <<"/">>))}
                /\ last' = [op |-> "delete_folder", outcome |-> "ok", p |-> folder_path]
    /\ UNCHANGED drag_data

\* ---------------------------------------------------------- drag and drop
\* on_start_drag: a press on row `row` of the table, or on no row (None); a press may
\* follow a press whose release never came.  start_x and start_y are not kept:
\* on_drag_motion gets the movement (dx, dy), which is all it computes from them.
OnStartDrag(row) ==
    /\ row \in {Some(i) : i \in contacts_table} \cup {None}
    /\ drag_data' = IF row = None THEN None
                    ELSE Some([contact_idx |-> row[1], dragged |-> FALSE])
    /\ last' = [op |-> "on_start_drag"]
    /\ UNCHANGED <<contacts, folder_path_to_id, folder_tree, selection, current_folder,
                   contacts_table, file, created>>

\* Mutant of on_drag_motion: the squared distance is compared with the threshold itself.
beyond_threshold_unsquared(dx, dy) == dx * dx + dy * dy >= DRAG_THRESHOLD

\* math.hypot(dx, dy) >= DRAG_THRESHOLD
beyond_threshold(dx, dy) == dx * dx + dy * dy >= DRAG_THRESHOLD * DRAG_THRESHOLD

\* on_drag_motion: the pointer has moved by (dx, dy) and is over folder item `over`
\* (None: over no folder item).  selection_set raises <<TreeviewSelect>>, which runs
\* on_folder_select.
OnDragMotion(dx, dy, over) ==
    /\ over \in {Some(n) : n \in DOMAIN folder_tree} \cup {None}
    /\ IF drag_data = None
       THEN UNCHANGED <<drag_data, selection, current_folder, contacts_table, last>>
       ELSE LET dragged == drag_data[1].dragged \/ beyond_threshold(dx, dy)
            IN  /\ drag_data' = Some([drag_data[1] EXCEPT !.dragged = dragged])
                /\ last' = [op |-> "on_drag_motion", dx |-> dx, dy |-> dy]
                /\ IF dragged /\ over # None
                   THEN /\ selection' = over
                        /\ current_folder' = folder_of_selection(over)
                        /\ contacts_table' =
                               refresh_contacts_table(contacts, folder_of_selection(over))
                   ELSE UNCHANGED <<selection, current_folder, contacts_table>>
    /\ UNCHANGED <<contacts, folder_path_to_id, folder_tree, file, created>>

\* Mutant of on_end_drag: a drop of a row on itself is taken as a drop on the empty
\* area of the table.
drop_on_table_self_to_end(cs, source_idx, target_row) ==
    IF target_row = None \/ target_row = Some(source_idx)
    THEN [method |-> "move_to_end"] @@ move_contact_to_end_of_folder(cs, source_idx)
    ELSE LET target_idx == target_row[1]
         IN  IF ~valid_index(cs, target_idx)
             THEN [method |-> "none"] @@ Outcome(cs, "IndexError")
             ELSE IF item(cs, target_idx).folder_path = item(cs, source_idx).folder_path
             THEN [method |-> "reorder"] @@ reorder_within_folder(cs, source_idx, target_idx)
             ELSE [method |-> "move_to_folder"] @@
                      move_contact_to_folder_at_position(
                          cs, source_idx, item(cs, target_idx).folder_path, target_idx)

\* on_end_drag, lines 519-534: which method a drop on the table calls, and what it leaves
drop_on_table(cs, source_idx, target_row) ==
    IF target_row = None
    THEN [method |-> "move_to_end"] @@ move_contact_to_end_of_folder(cs, source_idx)
    ELSE LET target_idx == target_row[1]
         IN  IF target_idx = source_idx
             THEN [method |-> "none"] @@ Outcome(cs, "")
             ELSE IF ~valid_index(cs, target_idx)
             THEN [method |-> "none"] @@ Outcome(cs, "IndexError")
             ELSE IF item(cs, target_idx).folder_path = item(cs, source_idx).folder_path
             THEN [method |-> "reorder"] @@ reorder_within_folder(cs, source_idx, target_idx)
             ELSE [method |-> "move_to_folder"] @@
                      move_contact_to_folder_at_position(
                          cs, source_idx, item(cs, target_idx).folder_path, target_idx)

\* Mutant of on_end_drag: the record dropped on a folder goes to the end of that folder.
drop_on_folder_to_end(cs, source_idx, new_folder) ==
    move_contact_to_end_of_folder(
        list_set(cs, source_idx, [item(cs, source_idx) EXCEPT !.folder_path = new_folder]),
        source_idx).contacts

\* on_end_drag, lines 503-505: the list after a drop on folder `new_folder`
drop_on_folder(cs, source_idx, new_folder) ==
    list_set(cs, source_idx, [item(cs, source_idx) EXCEPT !.folder_path = new_folder])

\* Mutant of on_end_drag: the drop on a folder does not save.
end_drag_file_unsaved_folder_drop(widget, cs, old_file) ==
    IF widget = "folder_tree" THEN old_file ELSE save_contacts(cs)

\* on_end_drag, lines 506 and 535: the file after a drop that raised nothing
end_drag_file(widget, cs, old_file) == save_contacts(cs)

\* on_end_drag: the button is released over `widget` ("folder_tree", "contacts_table"
\* or "other"), on its item `under` (None: on no item)
OnEndDrag(widget, under) ==
    /\ IF drag_data = None
       THEN /\ last' = [op |-> "on_end_drag", outcome |-> "no press"]
            /\ UNCHANGED <<contacts, selection, current_folder, contacts_table, drag_data,
                           file>>
       ELSE IF ~drag_data[1].dragged
       THEN /\ drag_data' = None
            /\ last' = [op |-> "on_end_drag", outcome |-> "click"]
            /\ UNCHANGED <<contacts, selection, current_folder, contacts_table, file>>
       ELSE LET source_idx == drag_data[1].contact_idx
            IN  /\ drag_data' = None
                /\ IF ~valid_index(contacts, source_idx)
                   THEN /\ last' = [op |-> "on_end_drag", outcome |-> "IndexError",
                                    i |-> source_idx]
                        /\ UNCHANGED <<contacts, selection, current_folder, contacts_table,
                                       file>>
                   ELSE IF widget = "folder_tree"
                   THEN LET node_id == IF under = None THEN ROOT_ID ELSE under[1]
                            new_folder == IF node_id = ROOT_ID THEN <<>> ELSE node_id
                        IN  IF item(contacts, source_idx).folder_path # new_folder
                            THEN LET cs == drop_on_folder(contacts, source_idx, new_folder)
                                 IN  /\ contacts' = cs
                                     /\ file' = end_drag_file(widget, cs, file)
                                     /\ selection' = <<node_id>>
                                     /\ current_folder' = folder_of_selection(<<node_id>>)
                                     /\ contacts_table' = refresh_contacts_table(
                                            cs, folder_of_selection(<<node_id>>))
                                     /\ last' = [op |-> "on_end_drag", outcome |-> "ok",
                                                 method |-> "drop_on_folder",
                                                 i |-> source_idx, p |-> new_folder]
                            ELSE /\ last' = [op |-> "on_end_drag", outcome |-> "ok",
                                             method |-> "same_folder",
                                             i |-> source_idx, p |-> new_folder]
                                 /\ UNCHANGED <<contacts, selection, current_folder,
                                                contacts_table, file>>
                   ELSE IF widget = "contacts_table"
                   THEN LET r == drop_on_table(contacts, source_idx, under)
                        IN  /\ contacts' = r.contacts
                            /\ last' = [op |-> "on_end_drag",
                                        outcome |-> IF r.raised = "" THEN "ok" ELSE r.raised,
                                        method |-> r.method, i |-> source_idx, j |-> under]
                            /\ IF r.raised = ""
                               THEN /\ file' = end_drag_file(widget, r.contacts, file)
                                    /\ contacts_table' =
                                           refresh_contacts_table(r.contacts, current_folder)
                               ELSE UNCHANGED <<file, contacts_table>>
                            /\ UNCHANGED <<selection, current_folder>>
                   ELSE /\ last' = [op |-> "on_end_drag", outcome |-> "ok",
                                    method |-> "elsewhere", i |-> source_idx]
                        /\ UNCHANGED <<contacts, selection, current_folder, contacts_table,
                                       file>>
    /\ UNCHANGED <<folder_path_to_id, folder_tree, created>>

\* ---------------------------------------------------------- specification
Next ==
    \/ Restart
    \/ \E sel \in {<<>>} \cup {<<n>> : n \in DOMAIN folder_tree} : OnFolderSelect(sel)
    \/ \E name \in FolderNameInputs : AddFolder(name)
    \/ \E input \in DialogInputs : AddContact(input)
    \/ \E idx \in contacts_table, input \in DialogInputs : EditSelected(idx, input)
    \/ \E s \in SUBSET contacts_table, yes \in BOOLEAN : DeleteContacts(s, yes)
    \/ \E yes \in BOOLEAN : DeleteFolder(yes)
    \/ \E row \in {Some(i) : i \in contacts_table} \cup {None} : OnStartDrag(row)
    \/ \E m \in MotionInputs, over \in {Some(n) : n \in DOMAIN folder_tree} \cup {None} :
           OnDragMotion(m[1], m[2], over)
    \/ \E under \in {Some(n) : n \in DOMAIN folder_tree} \cup {None} :
           OnEndDrag("folder_tree", under)
    \/ \E under \in {Some(i) : i \in contacts_table} \cup {None} :
           OnEndDrag("contacts_table", under)
    \/ OnEndDrag("other", None)

Spec == Init /\ [][Next]_vars

\* ------------------------------------------- the list methods on any store
\* The folders of the stores below
FolderInputs == { <<>>, <<"A">>, <<"A", "2">> }

ContactInputs ==
    { Contact(f, dialog_apply(input).name, dialog_apply(input).ammy,
              dialog_apply(input).anydesk, dialog_apply(input).rustdesk,
              dialog_apply(input).notes) :
          f \in FolderInputs, input \in {x \in DialogInputs : dialog_apply(x).ok} }

StoreInputs == UNION {[1..n -> ContactInputs] : n \in 0..MaxContacts}

\* The positions a caller may pass: in range, out of range, and negative
IndexInputs == (-MaxContacts)..MaxContacts

\* __init__ with a contacts.csv that holds any store
InitEngine ==
    \E cs \in StoreInputs :
        /\ contacts = cs
        /\ file = save_contacts(cs)
        /\ folder_path_to_id = build_folder_tree(cs).ids
        /\ folder_tree = build_folder_tree(cs).tree
        /\ selection = <<ROOT_ID>>
        /\ current_folder = <<>>
        /\ contacts_table = refresh_contacts_table(cs, <<>>)
        /\ drag_data = None
        /\ created = {}
        /\ last = [op |-> "init"]

\* One method is called on the store the application started with (last.op = "init");
\* a method touches the list alone.
EngineFrame ==
    UNCHANGED <<folder_path_to_id, folder_tree, selection, current_folder, contacts_table,
                drag_data, file, created>>

\* _move_contact_to_end_of_folder(i)
CallMoveToEnd(i) ==
    /\ last.op = "init"
    /\ LET r == move_contact_to_end_of_folder(contacts, i)
       IN  /\ contacts' = r.contacts
           /\ last' = [op |-> "move_to_end", raised |-> r.raised, i |-> i,
                       before |-> contacts]
    /\ EngineFrame

\* _reorder_within_folder(i, j)
CallReorder(i, j) ==
    /\ last.op = "init"
    /\ LET r == reorder_within_folder(contacts, i, j)
       IN  /\ contacts' = r.contacts
           /\ last' = [op |-> "reorder", raised |-> r.raised, i |-> i, j |-> j,
                       before |-> contacts]
    /\ EngineFrame

\* _move_contact_to_folder_at_position(i, folder, j)
CallMoveToFolder(i, folder, j) ==
    /\ last.op = "init"
    /\ LET r == move_contact_to_folder_at_position(contacts, i, folder, j)
       IN  /\ contacts' = r.contacts
           /\ last' = [op |-> "move_to_folder", raised |-> r.raised, i |-> i, j |-> j,
                       p |-> folder, before |-> contacts]
    /\ EngineFrame

\* The deletion loop of delete_selected (lines 386-388) on the positions s
CallDelete(s) ==
    /\ last.op = "init"
    /\ LET r == delete_contacts(contacts, s)
       IN  /\ contacts' = r.contacts
           /\ last' = [op |-> "delete", raised |-> r.raised, s |-> s, before |-> contacts]
    /\ EngineFrame

NextEngine ==
    \/ \E i \in IndexInputs : CallMoveToEnd(i)
    \/ \E i \in IndexInputs, j \in IndexInputs : CallReorder(i, j)
    \/ \E i \in IndexInputs, folder \in FolderInputs, j \in IndexInputs :
           CallMoveToFolder(i, folder, j)
    \/ \E s \in SUBSET IndexInputs : CallDelete(s)

SpecEngine == InitEngine /\ [][NextEngine]_vars

\* ------------------------------------------ build_folder_tree on any store
\* The folders of the stores below: a folder "A" that is only implied by "A/x", and
\* "A-B", which sorts between "A" and "A/x"
RebuildPathInputs == { <<>>, <<"A">>, <<"A", "-", "B">>, <<"A", "/", "x">>, <<"x">> }

RebuildStores ==
    UNION {[1..n -> {Contact(f, Bob, <<"1">>, <<>>, <<>>, <<>>) : f \in RebuildPathInputs}] :
               n \in 0..MaxContacts}

\* __init__ with a contacts.csv that holds any of these stores
InitRebuild ==
    \E cs \in RebuildStores :
        /\ contacts = cs
        /\ file = save_contacts(cs)
        /\ folder_path_to_id = build_folder_tree(cs).ids
        /\ folder_tree = build_folder_tree(cs).tree
        /\ selection = <<ROOT_ID>>
        /\ current_folder = <<>>
        /\ contacts_table = refresh_contacts_table(cs, <<>>)
        /\ drag_data = None
        /\ created = {}
        /\ last = [op |-> "init"]

\* The application is started again and again on the same file
NextRebuild == Restart

SpecRebuild == InitRebuild /\ [][NextRebuild]_vars

\* ----------------------------------------------------------------- claims
\* p is `folder` or below it, by path segments
in_subtree(p, folder) == p = folder \/ startswith(p, folder \o <<"/">>)

\* The contacts of l in `folder`, in order
in_folder(l, folder) == SelectSeq(l, LAMBDA c : c.folder_path = folder)

\* The call that ran last was given two positions of the store whose records share a folder
SharedFolderCall ==
    /\ last.i \in Positions(last.before)
    /\ last.j \in Positions(last.before)
    /\ item(last.before, last.i).folder_path = item(last.before, last.j).folder_path

\* C1: deleting folder p removes exactly the records whose folder_path is p or starts
\* with p + "/", and keeps every other record in its order; a record in "Team2"
\* survives the deletion of "Team".
C1_DeleteSubtreeExact ==
    [][(last'.op = "delete_folder" /\ last'.outcome = "ok") =>
          contacts' = SelectSeq(contacts, LAMBDA c : ~in_subtree(c.folder_path, last'.p))]_vars

\* C2: reorder_within_folder(i, j) on two records of one folder changes no record's
\* folder_path and leaves every record of another folder at its global index.
C2_ReorderFrame ==
    (last.op = "reorder" /\ SharedFolderCall) =>
        /\ last.raised = ""
        /\ Len(contacts) = Len(last.before)
        /\ \A k \in 1..Len(last.before) :
               /\ contacts[k].folder_path = last.before[k].folder_path
               /\ last.before[k].folder_path # item(last.before, last.i).folder_path
                      => contacts[k] = last.before[k]

\* C2 witness: a reorder across a record of another folder that changed the store
C2_Witness ==
    /\ last.op = "reorder" /\ SharedFolderCall
    /\ last.raised = ""
    /\ contacts # last.before
    /\ \E k \in Positions(last.before) :
           /\ (last.i < k /\ k < last.j) \/ (last.j < k /\ k < last.i)
           /\ item(last.before, k).folder_path # item(last.before, last.i).folder_path

\* C3: after move_to_folder_after(i, folder, j) with valid i # j, the moved record has
\* folder_path = folder and sits one past the new index of the record that was at j.
C3_MovedRightAfterTarget ==
    (/\ last.op = "move_to_folder"
     /\ last.i \in Positions(last.before) /\ last.j \in Positions(last.before)
     /\ last.i # last.j) =>
        LET new_j == IF last.i < last.j THEN last.j - 1 ELSE last.j
        IN  /\ last.raised = ""
            /\ Len(contacts) = Len(last.before)
            /\ item(contacts, new_j) = item(last.before, last.j)
            /\ item(contacts, new_j + 1) =
                   [item(last.before, last.i) EXCEPT !.folder_path = last.p]

\* C3 witness: a record moved forward, past its target, into another folder
C3_Witness ==
    /\ last.op = "move_to_folder"
    /\ last.i \in Positions(last.before) /\ last.j \in Positions(last.before)
    /\ last.i < last.j
    /\ last.p # item(last.before, last.i).folder_path
    /\ item(last.before, last.i) # item(last.before, last.j)
    /\ item(contacts, last.j).folder_path = last.p

Cy == <<"C", "y">>

C4_Example ==
    <<Contact(<<"A">>, Bob, <<>>, <<>>, <<>>, <<>>), Contact(<<"A">>, Al, <<>>, <<>>, <<>>, <<>>),
      Contact(<<"B">>, Cy, <<>>, <<>>, <<>>, <<>>)>>

C4_ExampleAfter ==
    <<Contact(<<"A">>, Al, <<>>, <<>>, <<>>, <<>>), Contact(<<"A">>, Bob, <<>>, <<>>, <<>>, <<>>),
      Contact(<<"B">>, Cy, <<>>, <<>>, <<>>, <<>>)>>

\* C4: after reorder_within_folder(i, j), i # j, the source record is in the slot the
\* target held, and the other records of the folder keep their relative order;
\* [(A,Bob),(A,Al),(B,Cy)] with (0, 1) becomes [(A,Al),(A,Bob),(B,Cy)].
C4_ReorderPlacesSource ==
    /\ reorder_within_folder(C4_Example, 0, 1) = Outcome(C4_ExampleAfter, "")
    /\ (last.op = "reorder" /\ SharedFolderCall /\ last.i # last.j) =>
           LET folder == item(last.before, last.i).folder_path
           IN  /\ last.raised = ""
               /\ item(contacts, last.j) = item(last.before, last.i)
               /\ in_folder(list_del(contacts, last.j), folder)
                      = in_folder(list_del(last.before, last.i), folder)

\* C4 witness: a reorder over a third record of the same folder
C4_Witness ==
    /\ last.op = "reorder" /\ SharedFolderCall
    /\ last.raised = ""
    /\ last.i + 2 = last.j
    /\ \A k \in Positions(last.before) :
           item(last.before, k).folder_path = item(last.before, last.i).folder_path
    /\ item(last.before, last.i) # item(last.before, last.j)
    /\ item(last.before, last.i) # item(last.before, last.i + 1)

C6_EmptyFolderSurvives ==
    \A f \in created :
        (\A k \in 1..Len(contacts) : contacts[k].folder_path # f)
            => f \in DOMAIN folder_path_to_id

\* The prefixes of path p that end where a segment ends
SegmentPrefixes(p) ==
    {SubSeq(p, 1, k) : k \in {m \in 1..Len(p) : m = Len(p) \/ p[m + 1] = "/"}}

\* C7: the registry's keys are exactly "", the segment prefixes of the records'
\* folder paths, and the folders made by add_folder and not deleted since.
C7_RegistryIsDerived ==
    DOMAIN folder_path_to_id =
        {<<>>} \cup created
               \cup UNION {SegmentPrefixes(contacts[k].folder_path) : k \in 1..Len(contacts)}

\* C8: after every handler the rows of the file are the contacts, in order.
C8_FileIsStore == file = save_contacts(contacts)

\* C8 witness: a drop on a folder has moved a record, and the file has it
C8_Witness ==
    /\ last.op = "on_end_drag" /\ last.outcome = "ok"
    /\ last.method = "drop_on_folder"
    /\ item(contacts, last.i).folder_path = last.p
    /\ C8_FileIsStore

last_segment(p) == split(p, "/")[Len(split(p, "/"))]

\* C9: add_folder with a name that is empty, blank or holds "/" fails and leaves the
\* registry and the tree as they were; no path whose last segment is empty is registered.
C9_InvalidNameRejected ==
    [][(/\ last'.op = "add_folder"
        /\ strip(last'.name, Whitespace) = <<>> \/ contains(last'.name, "/")) =>
           /\ last'.outcome # "ok"
           /\ folder_path_to_id' = folder_path_to_id
           /\ folder_tree' = folder_tree
           /\ \A p \in DOMAIN folder_path_to_id' : p # <<>> => last_segment(p) # <<>>]_vars

\* C10: add_folder with a name (non-blank, without "/") whose path under the selected
\* folder is already in the registry fails with DuplicateFolder and leaves the
\* registry and the tree as they were.
C10_DuplicateRejected ==
    [][LET parent_path == folder_of_selection(selection)
           stripped == strip(last'.name, Whitespace)
           new_path == IF parent_path # <<>> THEN parent_path \o <<"/">> \o stripped
                       ELSE stripped
       IN  (/\ last'.op = "add_folder"
            /\ stripped # <<>> /\ ~contains(stripped, "/")
            /\ new_path \in DOMAIN folder_path_to_id) =>
               /\ last'.outcome = "DuplicateFolder"
               /\ folder_path_to_id' = folder_path_to_id
               /\ folder_tree' = folder_tree]_vars

\* C10 witness: a duplicate of a folder that holds a record was refused
C10_Witness ==
    /\ last.op = "add_folder" /\ last.outcome = "DuplicateFolder"
    /\ strip(last.name, Whitespace) # <<>>
    /\ \E k \in 1..Len(contacts) :
           contacts[k].folder_path = strip(last.name, Whitespace)

\* C11: delete_selected on folder p (not the root) removes from the registry exactly p
\* and the paths that start with p + "/"; on the root it warns and changes neither the
\* registry, the tree nor the contacts.
C11_RegistryDeleteExact ==
    [][LET deleted == last'.op = "delete_folder" /\ last'.outcome = "ok"
           refused == last'.op = "delete_folder" /\ last'.outcome = "RootDeletionForbidden"
       IN  /\ deleted =>
                 /\ last'.p # <<>>
                 /\ DOMAIN folder_path_to_id' =
                        {fp \in DOMAIN folder_path_to_id : ~in_subtree(fp, last'.p)}
                 /\ \A fp \in DOMAIN folder_path_to_id' :
                        folder_path_to_id'[fp] = folder_path_to_id[fp]
           /\ refused =>
                 /\ folder_of_selection(selection) = <<>>
                 /\ UNCHANGED <<folder_path_to_id, folder_tree, contacts, file>>]_vars

\* C11 witness: a folder was deleted and a folder whose name only begins with its
\* name is still registered
C11_Witness ==
    /\ last.op = "delete_folder" /\ last.outcome = "ok"
    /\ last.p \notin DOMAIN folder_path_to_id
    /\ \E fp \in DOMAIN folder_path_to_id :
           startswith(fp, last.p) /\ ~in_subtree(fp, last.p)

\* The children of every item of the tree are in Python's string order of their paths
siblings_sorted(tree) ==
    \A n \in DOMAIN tree :
        \A i \in 1..Len(tree[n]), j \in 1..Len(tree[n]) :
            i < j => str_less(tree[n][i], tree[n][j])

\* The folder paths of a store
path_set(cs) == {cs[k].folder_path : k \in 1..Len(cs)}

\* C12: after build_folder_tree the children of every folder are in lexicographic
\* order of their full paths, also when a folder is only implied by a deeper path:
\* "A/x" and "A-B" give the root the children "A", "A-B".
C12_SiblingsSorted ==
    /\ build_folder_tree(<<Contact(<<"A", "/", "x">>, Bob, <<>>, <<>>, <<>>, <<>>),
                          Contact(<<"A", "-", "B">>, Bob, <<>>, <<>>, <<>>, <<>>)>>).tree[ROOT_ID]
           = << <<"A">>, <<"A", "-", "B">> >>
    /\ siblings_sorted(folder_tree)

\* C16: build_folder_tree run again on the same store gives the same registry and the
\* same tree (nodes, parents, order of children), and so does any store with the same
\* set of folder paths.
C16_RebuildIdempotent ==
    [][last'.op = "restart" =>
          /\ folder_path_to_id' = folder_path_to_id
          /\ folder_tree' = folder_tree
          /\ \A cs \in RebuildStores :
                 path_set(cs) = path_set(contacts) =>
                     /\ build_folder_tree(cs).ids = folder_path_to_id'
                     /\ build_folder_tree(cs).tree = folder_tree']_vars

\* C16 witness: the tree was built again from a store whose records are not in the
\* order of their paths, and it has nested folders
C16_Witness ==
    /\ last.op = "restart"
    /\ Len(contacts) >= 2
    /\ str_less(contacts[2].folder_path, contacts[1].folder_path)
    /\ \E n \in DOMAIN folder_tree : n # ROOT_ID /\ folder_tree[n] # <<>>

\* The places of l (1-based) where the record x may have been put: taking it out
\* again gives `rest`
put_places(l, x, rest) ==
    {k \in 1..Len(l) : l[k] = x /\ SubSeq(l, 1, k - 1) \o SubSeq(l, k + 1, Len(l)) = rest}

\* C13: _move_contact_to_end_of_folder(s) on a valid position keeps the record's
\* folder_path and puts the record right after the last other record of its folder, so
\* that it is the last of its folder; with no other record in its folder it goes to the
\* end of the list; the other records keep their order.
C13_MovedToEndOfFolder ==
    (last.op = "move_to_end" /\ valid_index(last.before, last.i)) =>
        LET src == item(last.before, last.i)
            rest == list_del(last.before, last.i)
            others == {k \in 1..Len(rest) : rest[k].folder_path = src.folder_path}
        IN  /\ last.raised = ""
            /\ \E k \in put_places(contacts, src, rest) :
                   /\ \A m \in (k + 1)..Len(contacts) :
                          contacts[m].folder_path # src.folder_path
                   /\ IF others = {} THEN k = Len(contacts)
                      ELSE k = Max(others) + 1

\* C13 witness: the record went to the end of its folder, which is not the end of the list
C13_Witness ==
    /\ last.op = "move_to_end" /\ last.raised = ""
    /\ valid_index(last.before, last.i)
    /\ contacts # last.before
    /\ contacts[Len(contacts)].folder_path # item(last.before, last.i).folder_path

\* C14: the contacts written by save_contacts and read back by load_contacts are the
\* same records, field for field, in the same order.
C14_SaveLoadRoundTrip ==
    /\ load_contacts(save_contacts(contacts)) = contacts
    /\ load_contacts(file) = contacts

\* C14 witness: the application was started again on a file of two records or more,
\* one of them in a folder and with notes
C14_Witness ==
    /\ last.op = "restart"
    /\ Len(contacts) >= 2
    /\ \E k \in 1..Len(contacts) :
           contacts[k].folder_path # <<>> /\ contacts[k].notes # <<>>

\* C15: a drop of a row on itself, and a drop of a row on the folder its record is in,
\* leave the list of contacts as it was.
C15_SelfDropIsNoOp ==
    [][LET dropped == last'.op = "on_end_drag" /\ last'.outcome = "ok"
           on_folder == dropped /\ last'.method \in {"drop_on_folder", "same_folder"}
           on_table == dropped /\ last'.method \in {"none", "reorder", "move_to_folder",
                                                    "move_to_end"}
       IN  /\ (on_folder /\ item(contacts, last'.i).folder_path = last'.p) =>
                  contacts' = contacts
           /\ (on_table /\ last'.j = Some(last'.i)) => contacts' = contacts]_vars

\* C15 witness: a row of a folder that holds another record was dropped on itself
C15_Witness ==
    /\ last.op = "on_end_drag" /\ last.outcome = "ok"
    /\ last.method = "none"
    /\ last.j = Some(last.i)
    /\ \E k \in Positions(contacts) :
           /\ k > last.i
           /\ item(contacts, k).folder_path = item(contacts, last.i).folder_path

\* The records of l at the positions (0-based) that are not in s, in order
RECURSIVE kept(_, _, _)
kept(l, s, i) ==
    IF i >= Len(l) THEN <<>>
    ELSE IF i \in s THEN kept(l, s, i + 1)
    ELSE <<item(l, i)>> \o kept(l, s, i + 1)

\* C17: the deletion loop of delete_selected on a set of positions of the list removes
\* the records that were at those positions, and leaves the others as they were and in
\* their order.
C17_DeleteExactPositions ==
    (last.op = "delete" /\ last.s \subseteq Positions(last.before)) =>
        /\ last.raised = ""
        /\ contacts = kept(last.before, last.s, 0)
        /\ Len(contacts) = Len(last.before) - Cardinality(last.s)

\* C17 witness: the first and another position of a list of three different records
\* were deleted
C17_Witness ==
    /\ last.op = "delete" /\ last.raised = ""
    /\ Len(last.before) = 3
    /\ 0 \in last.s /\ Cardinality(last.s) = 2
    /\ last.s \subseteq Positions(last.before)
    /\ last.before[1] # last.before[2] /\ last.before[2] # last.before[3]
    /\ Len(contacts) = 1

\* C18: _add_contact_callback appends the new record, in the current folder, to the
\* list: the list is one longer, and the records that were there keep their positions
\* and fields.
C18_AppendFrame ==
    [][last'.op = "add_contact" =>
          /\ Len(contacts') = Len(contacts) + 1
          /\ SubSeq(contacts', 1, Len(contacts)) = contacts
          /\ contacts'[Len(contacts')].folder_path = current_folder
          /\ current_folder = folder_of_selection(selection)]_vars

\* C18 witness: a record was added in a folder, after a record of another folder
C18_Witness ==
    /\ last.op = "add_contact"
    /\ Len(contacts) >= 2
    /\ contacts[Len(contacts)].folder_path = current_folder
    /\ current_folder # <<>>
    /\ contacts[1].folder_path # current_folder

\* C19: on_save of edit_selected changes the name, the three ids and the notes of the
\* record at the row's position and nothing else: the record keeps its position and
\* folder_path, the list its length, the other records everything.
C19_UpdateFrame ==
    [][(last'.op = "edit_selected" /\ last'.outcome = "ok") =>
          /\ Len(contacts') = Len(contacts)
          /\ last'.i \in Positions(contacts)
          /\ \A k \in Positions(contacts) :
                 IF k = last'.i
                 THEN item(contacts', k).folder_path = item(contacts, k).folder_path
                 ELSE item(contacts', k) = item(contacts, k)]_vars

\* C19 witness: a record that is not the last of the list, in a folder, was edited, and
\* differs from the record after it in its name alone
C19_Witness ==
    /\ last.op = "edit_selected" /\ last.outcome = "ok"
    /\ last.i + 1 < Len(contacts)
    /\ item(contacts, last.i).folder_path # <<>>
    /\ item(contacts, last.i).name # item(contacts, last.i + 1).name

\* C20: the folder_path of every contact is a key of folder_path_to_id.
C20_RecordsInRegistry ==
    \A k \in 1..Len(contacts) : contacts[k].folder_path \in DOMAIN folder_path_to_id

\* How many times the record x is in l
count(l, x) == Cardinality({k \in 1..Len(l) : l[k] = x})

\* l and m hold the same records, each as many times
same_records(l, m) ==
    /\ Len(l) = Len(m)
    /\ \A k \in 1..Len(l) : count(l, l[k]) = count(m, l[k])

\* C21: _move_contact_to_end_of_folder, _reorder_within_folder and
\* _move_contact_to_folder_at_position, called with valid positions, neither lose nor
\* duplicate a record: the list has the same length and the same records, rearranged
\* (the moved record with its new folder_path).
C21_NoRecordLostOrDuplicated ==
    /\ (last.op \in {"move_to_end", "reorder"} /\ valid_index(last.before, last.i)) =>
           same_records(contacts, last.before)
    /\ (/\ last.op = "move_to_folder"
        /\ valid_index(last.before, last.i)
        /\ valid_index(last.before, last.j)) =>
           /\ last.raised = ""
           /\ same_records(contacts,
                           list_set(last.before, last.i,
                                    [item(last.before, last.i) EXCEPT !.folder_path = last.p]))

\* C21 witness: two records of one folder, one of them twice in the list, were reordered
C21_Witness ==
    /\ last.op = "reorder" /\ last.raised = ""
    /\ contacts # last.before
    /\ \E k \in 1..Len(contacts) : count(contacts, contacts[k]) = 2

\* C22: _move_contact_to_folder_at_position(i, folder, j) with valid i # j changes the
\* folder_path of the moved record and of no other, and the other records keep their
\* order in the list.
C22_MoveToFolderFrame ==
    (/\ last.op = "move_to_folder"
     /\ valid_index(last.before, last.i)
     /\ valid_index(last.before, last.j)
     /\ norm_index(last.before, last.i) # norm_index(last.before, last.j)) =>
        /\ last.raised = ""
        /\ put_places(contacts,
                      [item(last.before, last.i) EXCEPT !.folder_path = last.p],
                      list_del(last.before, last.i)) # {}

\* C22 witness: the first of three records was moved into another folder, behind the
\* last record
C22_Witness ==
    /\ last.op = "move_to_folder" /\ last.raised = ""
    /\ Len(last.before) = 3
    /\ last.i = 0 /\ last.j = 2
    /\ last.p # last.before[1].folder_path
    /\ last.before[2] # last.before[3]
    /\ contacts[3].folder_path = last.p

\* C23: a drop on a folder other than the record's own sets the record's folder_path to
\* that folder and changes nothing else: every record keeps its position, so the record
\* is where its position puts it among the records of the new folder.
C23_FolderDropFrame ==
    [][(/\ last'.op = "on_end_drag" /\ last'.outcome = "ok"
        /\ last'.method \in {"drop_on_folder", "same_folder"}
        /\ item(contacts, last'.i).folder_path # last'.p) =>
           contacts' = list_set(contacts, last'.i,
                                [item(contacts, last'.i) EXCEPT !.folder_path = last'.p])]_vars

\* C23 witness: the record dropped on a folder stands before a record of that folder
C23_Witness ==
    /\ last.op = "on_end_drag" /\ last.outcome = "ok"
    /\ last.method = "drop_on_folder"
    /\ item(contacts, last.i).folder_path = last.p
    /\ \E k \in Positions(contacts) : k > last.i /\ item(contacts, k).folder_path = last.p

\* C24: a release without a press, or after a press that was not followed by a movement
\* of DRAG_THRESHOLD or more, leaves the contacts and the file as they were; and after
\* every release drag_data is None.  (dragged is set by a movement of DRAG_THRESHOLD or
\* more and by nothing else.)
C24_ReleaseClearsDrag ==
    [][/\ last'.op = "on_start_drag" => (drag_data' = None \/ ~drag_data'[1].dragged)
       /\ (last'.op = "on_drag_motion" /\ drag_data # None) =>
              (drag_data'[1].dragged =>
                  \/ drag_data[1].dragged
                  \/ last'.dx * last'.dx + last'.dy * last'.dy
                         >= DRAG_THRESHOLD * DRAG_THRESHOLD)
       /\ last'.op = "on_end_drag" =>
              /\ drag_data' = None
              /\ (drag_data = None \/ ~drag_data[1].dragged) =>
                     UNCHANGED <<contacts, file>>]_vars

\* C24 witness: a press on a row was released as a click, with two records in the list
C24_Witness ==
    /\ last.op = "on_end_drag" /\ last.outcome = "click"
    /\ drag_data = None
    /\ Len(contacts) >= 2

====
